---- MODULE Spec2Model ----
(***************************************************************************)
(* A model of the yoink crawler: the canonical Url (src/src/url.rs), the   *)
(* journal and its replay (src/src/journal.rs), the Queue state machine    *)
(* (src/src/queue.rs) and the scheduler of src/src/main.rs.                *)
(*                                                                         *)
(* Text is a sequence of one-character strings, so that parsing and        *)
(* rendering are computed as the code computes them.  An Option<T> is a    *)
(* sequence of length at most one: None is << >>, Some(x) is << x >>.      *)
(* A Result is << "Ok", v >> or << "Err", e >>.                            *)
(***************************************************************************)
EXTENDS Integers, Sequences, FiniteSets, TLC

VARIABLES
    journalFile,    \* the journal file on disk: [exists, lines]
    history,        \* the JournalHistory load_history returned
    phase,          \* where the start is: "boot" | "loaded" | "running"
    queue,          \* queue.rs Queue: [pending, pending_set, processing, processed, failed]
    ret,            \* what the last Queue::next() call returned (Option<Url>)
    outstanding,    \* URLs a next() call returned that no mark_as_* call has settled yet
    recorded,       \* URLs whose Processed record was in the journal the queue was built from
    chan,           \* the unbounded mpsc channel of Journal::new: entries in flight
    senders,        \* per producer, whether its Journal clone (the Sender) is still alive
    writer,         \* the writer task: [pc, torn, failed]
    sent,           \* per producer, the entries it passed to Journal::send, in order
    origin,         \* per line of the journal file, the send that produced it
    frontier,       \* main.rs Queue: [depth_limit, base_path, to_visit, visited, visiting]
    qlock,          \* who holds the Mutex around it: 0 nobody, else a task
    ticker,         \* who holds the Mutex around the interval: 0 nobody, else a task
    permits,        \* the permits the Semaphore has left
    coord,          \* the control loop of main: [pc, item]
    call,           \* a call of a function of url.rs: [op, input, result]
    tasks           \* the tasks spawned into join_set, in spawn order: [pc, url, depth, outcome]

replayVars == << journalFile, history, phase >>
queueVars == << queue, ret, outstanding, recorded >>
writerVars == << chan, senders, writer, sent, origin >>
crawlVars == << frontier, qlock, ticker, permits, coord, tasks >>
vars == << journalFile, history, phase, queue, ret, outstanding, recorded,
           chan, senders, writer, sent, origin,
           frontier, qlock, ticker, permits, coord, tasks, call >>

(***************************************************************************)
(* Bounds of the model.                                                    *)
(***************************************************************************)
\* The longest journal file that is replayed, in lines.
MaxLog == 2
\* The most characters that follow the scheme and host of a text given to url.rs.
MaxTail == 3
\* The most transitions of a Queue that are journaled.
MaxJournaled == 5
\* The most entries one producer sends to the journal.
MaxSend == 2
\* --concurrency-limit: the permits of the Semaphore.
ConcurrencyLimit == 2
\* The largest --depth-limit a crawl is started with.
MaxDepthLimit == 2

(***************************************************************************)
(* Option, Result and the string functions of the Rust standard library    *)
(* that the code calls.                                                    *)
(***************************************************************************)
None == << >>
Some(x) == << x >>
IsSome(o) == Len(o) = 1
Unwrap(o) == o[1]

Ok(v) == << "Ok", v >>
Err(e) == << "Err", e >>
IsOk(r) == r[1] = "Ok"
Val(r) == r[2]

\* str::starts_with
StartsWith(s, p) == Len(p) <= Len(s) /\ SubSeq(s, 1, Len(p)) = p

\* The index of the first occurrence of sep in s, or 0.
Find(s, sep) ==
    LET hits == { i \in 1..(Len(s) - Len(sep) + 1) : SubSeq(s, i, i + Len(sep) - 1) = sep }
    IN  IF hits = {} THEN 0 ELSE CHOOSE i \in hits : \A j \in hits : i <= j

\* The text before and after the occurrence of sep at index i (0: there is none).
SplitAt(s, sep, i) ==
    IF i = 0 THEN None
    ELSE Some(<< SubSeq(s, 1, i - 1), SubSeq(s, i + Len(sep), Len(s)) >>)

\* str::split_once: the text before and after the first occurrence of sep.
SplitOnce(s, sep) == SplitAt(s, sep, Find(s, sep))

\* str::trim_end_matches(c): every trailing c is removed.
RECURSIVE TrimEndMatches(_, _)
TrimEndMatches(s, c) ==
    IF s # << >> /\ s[Len(s)] = c THEN TrimEndMatches(SubSeq(s, 1, Len(s) - 1), c) ELSE s

\* str::trim_start_matches(c): every leading c is removed.
RECURSIVE TrimStartMatches(_, _)
TrimStartMatches(s, c) ==
    IF s # << >> /\ s[1] = c THEN TrimStartMatches(Tail(s), c) ELSE s

\* The elements of a sequence.
Range(s) == { s[i] : i \in 1..Len(s) }

(***************************************************************************)
(* url.rs                                                                  *)
(***************************************************************************)
T_http == << "h", "t", "t", "p" >>
T_https == << "h", "t", "t", "p", "s" >>
T_sep == << ":", "/", "/" >>

\* impl Display for UrlScheme
SchemeToString(scheme) == IF scheme = "HTTPS" THEN T_https ELSE T_http

\* impl TryFrom<&str> for UrlScheme
SchemeTryFrom(value) ==
    IF value = T_http THEN Ok("HTTP")
    ELSE IF value = T_https THEN Ok("HTTPS")
    ELSE Err("InvalidScheme")

\* Url::new
UrlNew(scheme, host, path) == [scheme |-> scheme, host |-> host, path |-> path]

\* impl Display for Url
UrlToString(url) ==
    IF IsSome(url.path)
    THEN SchemeToString(url.scheme) \o T_sep \o url.host \o << "/" >> \o Unwrap(url.path)
    ELSE SchemeToString(url.scheme) \o T_sep \o url.host

\* from_str, lines 89-98: the fragment is cut off, trailing slashes are trimmed,
\* and an empty path is stored as None.
StripFragment(raw, fr) == IF IsSome(fr) THEN Unwrap(fr)[1] ELSE raw

UrlOfParts(scheme, host, path) ==
    IF host = << >> THEN Err("MissingHost")
    ELSE IF path = << >> THEN Ok(UrlNew(scheme, host, None))
    ELSE Ok(UrlNew(scheme, host, Some(path)))

\* from_str, lines 75-87: rest.split_once("/") and the host check.
UrlOfRest(scheme, rest, hp) ==
    IF ~IsOk(scheme) THEN scheme
    ELSE IF ~IsSome(hp) THEN Ok(UrlNew(Val(scheme), rest, None))
    ELSE IF Unwrap(hp)[2] = << >> THEN Ok(UrlNew(Val(scheme), Unwrap(hp)[1], None))
    ELSE UrlOfParts(Val(scheme), Unwrap(hp)[1],
                    TrimEndMatches(StripFragment(Unwrap(hp)[2],
                                                 SplitOnce(Unwrap(hp)[2], << "#" >>)), "/"))

\* from_str, lines 73-74: value.split_once("://") and the scheme.
UrlOfSplit(sp) ==
    IF ~IsSome(sp) THEN Err("MissingScheme")
    ELSE UrlOfRest(SchemeTryFrom(Unwrap(sp)[1]), Unwrap(sp)[2],
                   SplitOnce(Unwrap(sp)[2], << "/" >>))

\* impl FromStr for Url
UrlFromStr(value) == UrlOfSplit(SplitOnce(value, T_sep))

\* new_with_base, lines 111-121: an absolute reference must stay on the base.
SameSchemeAndHost(base_url, url) ==
    IF IsOk(url) /\ (Val(url).scheme # base_url.scheme \/ Val(url).host # base_url.host)
    THEN Err("DifferentSchemeOrHost")
    ELSE url

\* Url::new_with_base
UrlNewWithBase(base_url, url_or_path) ==
    IF StartsWith(url_or_path, T_http \o T_sep) \/ StartsWith(url_or_path, T_https \o T_sep)
    THEN SameSchemeAndHost(base_url, UrlFromStr(url_or_path))
    ELSE IF StartsWith(url_or_path, << "/" >>)
    THEN Ok(UrlNew(base_url.scheme, base_url.host,
                   IF url_or_path = << "/" >> THEN None
                   ELSE Some(TrimStartMatches(url_or_path, "/"))))
    ELSE Err("UnexpectedFormat")

(***************************************************************************)
(* The URLs of the model: the seed and what new_with_base makes of the     *)
(* references found on pages.                                              *)
(***************************************************************************)
\* The seed URL given on the command line, "https://h".
SeedText == T_https \o T_sep \o << "h" >>
BaseUrl == Val(UrlFromStr(SeedText))

\* href values found on pages: "/", "/a", "/a/", "https://h/a".
Refs ==
    { << "/" >>, << "/", "a" >>, << "/", "a", "/" >>, SeedText \o << "/", "a" >> }

\* Every Url value a run hands to the Queue.
UrlValues ==
    { BaseUrl } \cup { Val(UrlNewWithBase(BaseUrl, r)) : r \in { x \in Refs : IsOk(UrlNewWithBase(BaseUrl, x)) } }

(***************************************************************************)
(* journal.rs: entries, their text, and the replay.                        *)
(***************************************************************************)
T_pending == << "p", "e", "n", "d", "i", "n", "g" >>
T_processing == << "p", "r", "o", "c", "e", "s", "s", "i", "n", "g" >>
T_processed == << "p", "r", "o", "c", "e", "s", "s", "e", "d" >>
T_failed == << "f", "a", "i", "l", "e", "d" >>

Statuses == { "Pending", "Processing", "Processed", "Failed" }

\* enum JournalEntry
JournalEntry(status, url) == [status |-> status, url |-> url]

StatusText(status) ==
    CASE status = "Pending" -> T_pending
      [] status = "Processing" -> T_processing
      [] status = "Processed" -> T_processed
      [] OTHER -> T_failed

\* impl Display for JournalEntry
EntryToString(entry) == StatusText(entry.status) \o << ";" >> \o UrlToString(entry.url)

\* from_str, lines 38-46: the URL must parse and the status must be known.
EntryOfParts(status, url) ==
    IF ~IsOk(url) THEN url
    ELSE IF status = T_pending THEN Ok(JournalEntry("Pending", Val(url)))
    ELSE IF status = T_processing THEN Ok(JournalEntry("Processing", Val(url)))
    ELSE IF status = T_processed THEN Ok(JournalEntry("Processed", Val(url)))
    ELSE IF status = T_failed THEN Ok(JournalEntry("Failed", Val(url)))
    ELSE Err("invalid status")

EntryOfSplit(sp) ==
    IF ~IsSome(sp) THEN Err("invalid entry")
    ELSE EntryOfParts(Unwrap(sp)[1], UrlFromStr(Unwrap(sp)[2]))

\* impl FromStr for JournalEntry
EntryFromStr(s) == EntryOfSplit(SplitOnce(s, << ";" >>))

\* struct JournalHistory.  pending is a Vec filled in file order; the other
\* three are Vecs collected from a HashSet (no repeats, order unspecified) and
\* the Queue reads them only as sets, so they are sets here.
JournalHistory(pending, processing, processed, failed) ==
    [pending |-> pending, processing |-> processing, processed |-> processed, failed |-> failed]

\* JournalHistory::default()
DefaultHistory == JournalHistory(<< >>, {}, {}, {})

\* load_history, lines 114-135: one line of the file; a line that does not
\* parse is skipped.
ReadLine(acc, entry) ==
    IF ~IsOk(entry) THEN acc
    ELSE CASE Val(entry).status = "Pending" ->
                [acc EXCEPT !.pending = Append(@, Val(entry).url)]
           [] Val(entry).status = "Processing" ->
                [acc EXCEPT !.processing = @ \cup { Val(entry).url }]
           [] Val(entry).status = "Processed" ->
                [acc EXCEPT !.processed = @ \cup { Val(entry).url }]
           [] OTHER ->
                [acc EXCEPT !.failed = @ \cup { Val(entry).url }]

\* The line loop of load_history: the accumulators (maybe_pending,
\* maybe_processing, processed, failed) after reading lines[1..n].
RECURSIVE ReadLines(_, _)
ReadLines(lines, n) ==
    IF n = 0 THEN JournalHistory(<< >>, {}, {}, {})
    ELSE ReadLine(ReadLines(lines, n - 1), EntryFromStr(lines[n]))

\* A reconciliation that leaves in processing the URLs that have ended.
reconcile_keeps_ended(acc) ==
    JournalHistory(
        SelectSeq(acc.pending,
                  LAMBDA u : u \notin acc.processing /\ u \notin acc.processed
                             /\ u \notin acc.failed),
        acc.processing,
        acc.processed,
        acc.failed)

\* load_history, lines 138-158: the reconciliation of the accumulators.
Reconcile(acc) ==
    JournalHistory(
        SelectSeq(acc.pending,
                  LAMBDA u : u \notin acc.processing /\ u \notin acc.processed
                             /\ u \notin acc.failed),
        { u \in acc.processing : u \notin acc.processed /\ u \notin acc.failed },
        acc.processed,
        acc.failed)

\* Journal::load_history
load_history(file) ==
    IF ~file.exists THEN DefaultHistory ELSE Reconcile(ReadLines(file.lines, Len(file.lines)))

\* The lines a run writes: the text of one entry.
JournalLines == { EntryToString(JournalEntry(s, u)) : s \in Statuses, u \in UrlValues }

RECURSIVE SeqsUpTo(_, _)
SeqsUpTo(S, n) ==
    IF n = 0 THEN { << >> }
    ELSE LET shorter == SeqsUpTo(S, n - 1)
         IN  shorter \cup { Append(s, x) : s \in { t \in shorter : Len(t) = n - 1 }, x \in S }

\* The journal files that are replayed: no file, or up to MaxLog lines.
NoFile == [exists |-> FALSE, lines |-> << >>]
JournalFiles ==
    { NoFile } \cup { [exists |-> TRUE, lines |-> l] : l \in SeqsUpTo(JournalLines, MaxLog) }

\* Lines that no run writes, as a damaged or hand-edited journal holds them:
\* "pending" (one field), "bogus;https://h" (unknown status), "pending;h"
\* (no scheme), "pending;ftp://h" (another scheme), "pending;https:///a" and
\* "pending;https://" (no host).
OtherLines ==
    { T_pending,
      << "b", "o", "g", "u", "s", ";" >> \o SeedText,
      T_pending \o << ";", "h" >>,
      T_pending \o << ";", "f", "t", "p" >> \o T_sep \o << "h" >>,
      T_pending \o << ";" >> \o T_https \o T_sep \o << "/", "a" >>,
      T_pending \o << ";" >> \o T_https \o T_sep }

\* The journal files load_history is applied to: no file, or up to MaxLog
\* lines, written by a run or not.
ReplayFiles ==
    { NoFile } \cup { [exists |-> TRUE, lines |-> l] :
                         l \in SeqsUpTo(JournalLines \cup OtherLines, MaxLog) }

\* Whether the journal holds the Processed record of url, as the writer renders it.
HasProcessedRecord(file, url) ==
    file.exists /\ EntryToString(JournalEntry("Processed", url)) \in Range(file.lines)

(***************************************************************************)
(* queue.rs                                                                *)
(***************************************************************************)
\* struct Queue
Queue(pending, pending_set, processing, processed, failed) ==
    [pending |-> pending, pending_set |-> pending_set, processing |-> processing,
     processed |-> processed, failed |-> failed]

\* add_pending without the check of processed.
add_pending_unchecked(q, url) ==
    IF url \notin q.pending_set /\ url \notin q.processing
    THEN [q EXCEPT !.pending = Append(@, url), !.pending_set = @ \cup { url }]
    ELSE q

\* Queue::add_pending
add_pending(q, url) ==
    IF url \notin q.pending_set /\ url \notin q.processed /\ url \notin q.processing
    THEN [q EXCEPT !.pending = Append(@, url), !.pending_set = @ \cup { url }]
    ELSE q

\* Queue::new_with_initial
new_with_initial(base_url, pending, processing, processed, failed) ==
    add_pending(Queue(pending, Range(pending), processing, processed, failed), base_url)

\* The queue a run starts with: new_with_initial on the four lists of the replay.
Recover(base_url, h) ==
    new_with_initial(base_url, h.pending, h.processing, h.processed, h.failed)

\* next taking the URL from the back of the pending sequence.
next_from_back(q) ==
    IF q.pending # << >>
    THEN LET url == q.pending[Len(q.pending)]
         IN  [q |-> [q EXCEPT !.pending = SubSeq(@, 1, Len(@) - 1),
                              !.pending_set = @ \ { url },
                              !.processing = @ \cup { url }],
              ret |-> Some(url)]
    ELSE [q |-> q, ret |-> None]

\* Queue::next: the queue after the call and the value returned.
next(q) ==
    IF q.pending # << >>
    THEN LET url == Head(q.pending)
         IN  [q |-> [q EXCEPT !.pending = Tail(@),
                              !.pending_set = @ \ { url },
                              !.processing = @ \cup { url }],
              ret |-> Some(url)]
    ELSE [q |-> q, ret |-> None]

\* Queue::mark_as_processed
mark_as_processed(q, url) ==
    [q EXCEPT !.processing = @ \ { url }, !.processed = @ \cup { url }]

\* Queue::mark_as_failed
mark_as_failed(q, url) ==
    [q EXCEPT !.processing = @ \ { url }, !.failed = @ \cup { url }]

\* The total print_summary prints.
SummaryTotal(q) ==
    Cardinality(q.pending_set) + Cardinality(q.processing)
        + Cardinality(q.processed) + Cardinality(q.failed)

(***************************************************************************)
(* journal.rs: the channel and the writer task of Journal::new.            *)
(***************************************************************************)
\* The tasks that hold a clone of the Journal and send entries to it.
Producers == { "p1", "p2" }

\* The entries the producers send.
SendEntries ==
    { JournalEntry("Pending", Val(UrlNewWithBase(BaseUrl, << "/", "a" >>))),
      JournalEntry("Processing", BaseUrl) }

\* An entry in the channel, with the send it comes from: << producer, index >>.
Message(entry, from) == [entry |-> entry, from |-> from]

\* UnboundedSender::send pushing to the front of the channel.
send_to_front(ch, msg) == << msg >> \o ch

\* UnboundedSender::send on an open channel: the entry joins the back.
send(ch, msg) == Append(ch, msg)

\* write_all on a file opened with append(true).  The file is kept as its
\* lines; torn says that a failed write left the last line without its end.
write_all(lines, torn, text) ==
    IF torn THEN [lines EXCEPT ![Len(lines)] = @ \o text] ELSE Append(lines, text)

\* The origin of every line after the same write.
write_origin(org, torn, from) == IF torn THEN org ELSE Append(org, from)

\* The journal files the writer may find: none, or one of an earlier run.
OldLine == EntryToString(JournalEntry("Processed", BaseUrl))
StartFiles == { NoFile, [exists |-> TRUE, lines |-> << OldLine >>] }

(***************************************************************************)
(* main.rs: its own Queue of URLs to visit, and the pages of the site.     *)
(* A URL is the text url::Url renders; the model keeps it as the record    *)
(* [scheme, domain, path] that the text stands for.  An href is what       *)
(* url::Url::parse makes of it: an absolute URL [abs, scheme, domain,      *)
(* path, fragment], or a reference that has no base and is joined to the   *)
(* base.                                                                   *)
(***************************************************************************)
Page(path) == [scheme |-> "https", domain |-> "h", path |-> path]
HrefPath(path, fragment) ==
    [abs |-> FALSE, scheme |-> "", domain |-> "", path |-> path, fragment |-> fragment]
HrefAbs(scheme, domain, path) ==
    [abs |-> TRUE, scheme |-> scheme, domain |-> domain, path |-> path, fragment |-> ""]

\* --url
SeedPage == Page("/")

\* The anchors of every page of the site, as extract_links_from_body lists them.
Links(url) ==
    CASE url = Page("/") -> << HrefPath("/a", ""), HrefAbs("https", "other", "/b"),
                              HrefPath("/a", "top") >>
      [] url = Page("/a") -> << HrefPath("/", ""), HrefAbs("http", "h", "/c"),
                               HrefPath("/b", "") >>
      [] OTHER -> << >>

\* base.join(url_or_path) for a reference that starts with "/".
Join(base, href) == [href EXCEPT !.scheme = base.scheme, !.domain = base.domain]

\* A filter that lets a URL of any host and scheme through.
normalize_without_filter(base, href) ==
    LET url == IF href.abs THEN href ELSE Join(base, href)
    IN  Some([scheme |-> url.scheme, domain |-> url.domain, path |-> url.path])

\* normalize_and_filter_url
normalize_and_filter_url(base, href) ==
    LET url == IF href.abs THEN href ELSE Join(base, href)
    IN  IF url.domain # base.domain \/ url.scheme # base.scheme THEN None
        ELSE Some([scheme |-> url.scheme, domain |-> url.domain, path |-> url.path])

\* --depth-limit
DepthLimits == 0 .. MaxDepthLimit

\* struct Queue of main.rs.
VisitQueue(depth_limit, base_path, to_visit, visited, visiting) ==
    [depth_limit |-> depth_limit, base_path |-> base_path,
     to_visit |-> to_visit, visited |-> visited, visiting |-> visiting]

\* Queue::add, lines 208-212: one URL of the loop.
AddOne(q, url, depth) ==
    IF IsSome(url) /\ Unwrap(url) \notin q.visited /\ Unwrap(url) \notin q.visiting
    THEN [q EXCEPT !.to_visit = Append(@, << Unwrap(url), depth >>)]
    ELSE q

\* Queue::add: the loop over urls[1..n].
RECURSIVE AddUrls(_, _, _, _)
AddUrls(q, urls, n, depth) ==
    IF n = 0 THEN q
    ELSE AddOne(AddUrls(q, urls, n - 1, depth), normalize_and_filter_url(q.base_path, urls[n]), depth)

\* Queue::add
add(q, urls, depth) == IF depth > q.depth_limit THEN q ELSE AddUrls(q, urls, Len(urls), depth)

\* Queue::next of main.rs: the queue after the call and the item returned.
visit_next(q) ==
    IF q.to_visit # << >>
    THEN [q |-> [q EXCEPT !.to_visit = Tail(@), !.visiting = @ \cup { Head(q.to_visit)[1] }],
          ret |-> Some(Head(q.to_visit))]
    ELSE [q |-> q, ret |-> None]

\* save_html: the URLs whose body file was written.  The file's name is the
\* percent-encoded URL, one name per URL.
Saved == { tasks[t].url : t \in { i \in DOMAIN tasks : tasks[i].outcome = "ok" } }

\* Queue::done
done(q, url) == [q EXCEPT !.visiting = @ \ { url }, !.visited = @ \cup { url }]

\* Queue::new
visit_queue_new(base_path, depth_limit) ==
    add(VisitQueue(depth_limit, base_path, << >>, {}, {}),
        << HrefAbs(base_path.scheme, base_path.domain, base_path.path) >>, 0)

\* Semaphore::acquire_owned completes only when a permit is left.
can_acquire(p) == p > 0

\* Dropping the OwnedSemaphorePermit without giving the permit back.
drop_permit_lost(p) == p

\* Dropping the OwnedSemaphorePermit at the end of a task gives the permit back.
drop_permit(p) == p + 1

\* A task of join_set.
Task(pc, url, depth, outcome) == [pc |-> pc, url |-> url, depth |-> depth, outcome |-> outcome]

\* join_set: the tasks spawned and not yet taken by join_next.
JoinSet == { t \in DOMAIN tasks : tasks[t].pc # "joined" }

\* The tasks that are spawned and have not finished.
Running == { t \in DOMAIN tasks : tasks[t].pc \notin { "finished", "joined" } }

(***************************************************************************)
(* The parts of the state a specification does not use stay as they are    *)
(* here.                                                                   *)
(***************************************************************************)
EmptyQueue == Queue(<< >>, {}, {}, {}, {})

QueueIdle ==
    /\ queue = EmptyQueue
    /\ ret = None
    /\ outstanding = {}
    /\ recorded = {}

WriterIdle ==
    /\ chan = << >>
    /\ senders = [p \in Producers |-> FALSE]
    /\ writer = [pc |-> "done", torn |-> FALSE, failed |-> FALSE]
    /\ sent = [p \in Producers |-> << >>]
    /\ origin = << >>

UrlIdle == call = [op |-> "none", input |-> << >>, result |-> None]

CrawlIdle ==
    /\ frontier = VisitQueue(0, SeedPage, << >>, {}, {})
    /\ qlock = 0
    /\ ticker = 0
    /\ permits = 0
    /\ coord = [pc |-> "done", item |-> None]
    /\ tasks = << >>

(***************************************************************************)
(* SpecReplay: load_history applied to every journal file.                 *)
(***************************************************************************)
InitReplay ==
    /\ journalFile \in ReplayFiles
    /\ history = DefaultHistory
    /\ phase = "boot"
    /\ QueueIdle
    /\ WriterIdle
    /\ CrawlIdle
    /\ UrlIdle

LoadHistory ==
    /\ phase = "boot"
    /\ history' = load_history(journalFile)
    /\ phase' = "loaded"
    /\ UNCHANGED << call, journalFile, queueVars, writerVars, crawlVars >>

\* Queue::new_with_initial(&base_url, ...) on the four lists of the history.
NewWithInitial ==
    /\ phase = "loaded"
    /\ queue' = Recover(BaseUrl, history)
    /\ phase' = "running"
    /\ UNCHANGED << call, journalFile, history, ret, outstanding, recorded, writerVars, crawlVars >>

NextReplay == LoadHistory \/ NewWithInitial

SpecReplay == InitReplay /\ [][NextReplay]_vars

(***************************************************************************)
(* Spec: the Queue, built by new_with_initial from the replay of a journal *)
(* file, under any sequence of its four operations.  Every operation runs  *)
(* with the queue's lock held, so each is one step.  The file itself is    *)
(* not followed after the replay: recorded keeps the URLs whose Processed  *)
(* record it held.                                                         *)
(***************************************************************************)
Init ==
    /\ \E file \in JournalFiles :
          /\ history = load_history(file)
          /\ recorded = { url \in UrlValues : HasProcessedRecord(file, url) }
    /\ journalFile = NoFile
    /\ phase = "running"
    /\ queue = Recover(BaseUrl, history)
    /\ ret = None
    /\ outstanding = {}
    /\ WriterIdle
    /\ CrawlIdle
    /\ UrlIdle

AddPending(url) ==
    /\ queue' = add_pending(queue, url)
    /\ ret' = None
    /\ UNCHANGED << call, replayVars, outstanding, recorded, writerVars, crawlVars >>

Next_ ==
    /\ queue' = next(queue).q
    /\ ret' = next(queue).ret
    /\ outstanding' = outstanding \cup Range(next(queue).ret)
    /\ UNCHANGED << call, replayVars, recorded, writerVars, crawlVars >>

MarkAsProcessed(url) ==
    /\ queue' = mark_as_processed(queue, url)
    /\ ret' = None
    /\ outstanding' = outstanding \ { url }
    /\ UNCHANGED << call, replayVars, recorded, writerVars, crawlVars >>

MarkAsFailed(url) ==
    /\ queue' = mark_as_failed(queue, url)
    /\ ret' = None
    /\ outstanding' = outstanding \ { url }
    /\ UNCHANGED << call, replayVars, recorded, writerVars, crawlVars >>

NextQueue ==
    \/ \E url \in UrlValues : AddPending(url)
    \/ Next_
    \/ \E url \in UrlValues : MarkAsProcessed(url)
    \/ \E url \in UrlValues : MarkAsFailed(url)

Spec == Init /\ [][NextQueue]_vars

(***************************************************************************)
(* SpecLogged: a Queue of a first run, every transition of which is        *)
(* journaled at once and flushed: the journal file holds the line of each  *)
(* transition, in the order they happened.                                 *)
(***************************************************************************)
\* The entry's line is appended to the journal file.
journaled(file, entry) == [exists |-> TRUE, lines |-> Append(file.lines, EntryToString(entry))]

InitLogged ==
    /\ journalFile = NoFile
    /\ history = load_history(journalFile)
    /\ phase = "running"
    /\ queue = Recover(BaseUrl, history)
    /\ ret = None
    /\ outstanding = {}
    /\ recorded = {}
    /\ WriterIdle
    /\ CrawlIdle
    /\ UrlIdle

\* add_pending(url), journaled when it admits the URL.
LoggedAddPending(url) ==
    /\ Len(journalFile.lines) < MaxJournaled
    /\ queue' = add_pending(queue, url)
    /\ queue' # queue
    /\ journalFile' = journaled(journalFile, JournalEntry("Pending", url))
    /\ ret' = None
    /\ UNCHANGED << call, history, phase, outstanding, recorded, writerVars, crawlVars >>

\* next(), journaled when it hands a URL out.
LoggedNext ==
    /\ Len(journalFile.lines) < MaxJournaled
    /\ IsSome(next(queue).ret)
    /\ queue' = next(queue).q
    /\ ret' = next(queue).ret
    /\ outstanding' = outstanding \cup Range(next(queue).ret)
    /\ journalFile' = journaled(journalFile, JournalEntry("Processing", Unwrap(next(queue).ret)))
    /\ UNCHANGED << call, history, phase, recorded, writerVars, crawlVars >>

\* mark_as_processed(url) of a URL that is being processed, journaled.
LoggedMarkAsProcessed(url) ==
    /\ Len(journalFile.lines) < MaxJournaled
    /\ url \in queue.processing
    /\ queue' = mark_as_processed(queue, url)
    /\ journalFile' = journaled(journalFile, JournalEntry("Processed", url))
    /\ ret' = None
    /\ outstanding' = outstanding \ { url }
    /\ UNCHANGED << call, history, phase, recorded, writerVars, crawlVars >>

\* mark_as_failed(url) of a URL that is being processed, journaled.
LoggedMarkAsFailed(url) ==
    /\ Len(journalFile.lines) < MaxJournaled
    /\ url \in queue.processing
    /\ queue' = mark_as_failed(queue, url)
    /\ journalFile' = journaled(journalFile, JournalEntry("Failed", url))
    /\ ret' = None
    /\ outstanding' = outstanding \ { url }
    /\ UNCHANGED << call, history, phase, recorded, writerVars, crawlVars >>

NextLogged ==
    \/ \E url \in UrlValues : LoggedAddPending(url)
    \/ LoggedNext
    \/ \E url \in UrlValues : LoggedMarkAsProcessed(url)
    \/ \E url \in UrlValues : LoggedMarkAsFailed(url)

SpecLogged == InitLogged /\ [][NextLogged]_vars

(***************************************************************************)
(* SpecJournal: producers send entries through their Journal clones while  *)
(* the writer task of Journal::new appends them to the file.               *)
(***************************************************************************)
InitJournal ==
    /\ journalFile \in StartFiles
    /\ origin = [i \in 1..Len(journalFile.lines) |-> << "old", i >>]
    /\ chan = << >>
    /\ senders = [p \in Producers |-> TRUE]
    /\ writer = [pc |-> "open", torn |-> FALSE, failed |-> FALSE]
    /\ sent = [p \in Producers |-> << >>]
    /\ history = DefaultHistory
    /\ phase = "boot"
    /\ QueueIdle
    /\ CrawlIdle
    /\ UrlIdle

\* Journal::send.  The send fails, and the entry is lost, once the receiver
\* is gone, which happens when the writer task panicked.
Send(p, entry) ==
    /\ senders[p]
    /\ Len(sent[p]) < MaxSend
    /\ sent' = [sent EXCEPT ![p] = Append(@, entry)]
    /\ chan' = IF writer.pc = "panicked" THEN chan
               ELSE send(chan, Message(entry, << p, Len(sent[p]) + 1 >>))
    /\ UNCHANGED << call, replayVars, queueVars, senders, writer, origin, crawlVars >>

\* A producer ends and drops its Journal clone.
DropSender(p) ==
    /\ senders[p]
    /\ senders' = [senders EXCEPT ![p] = FALSE]
    /\ UNCHANGED << call, replayVars, queueVars, chan, writer, sent, origin, crawlVars >>

\* The writer opens the file with create(true).append(true).
OpenOk ==
    /\ writer.pc = "open"
    /\ journalFile' = [journalFile EXCEPT !.exists = TRUE]
    /\ writer' = [writer EXCEPT !.pc = "recv"]
    /\ UNCHANGED << call, history, phase, queueVars, chan, senders, sent, origin, crawlVars >>

\* The open fails: expect() panics, the task ends and the receiver is dropped
\* with what the channel held.
OpenFails ==
    /\ writer.pc = "open"
    /\ writer' = [writer EXCEPT !.pc = "panicked"]
    /\ chan' = << >>
    /\ UNCHANGED << call, replayVars, queueVars, senders, sent, origin, crawlVars >>

\* rx.recv() yields an entry and write_all appends its line.
WriteOk ==
    /\ writer.pc = "recv"
    /\ chan # << >>
    /\ chan' = Tail(chan)
    /\ journalFile' = [journalFile EXCEPT
                          !.lines = write_all(@, writer.torn, EntryToString(Head(chan).entry))]
    /\ origin' = write_origin(origin, writer.torn, Head(chan).from)
    /\ writer' = [writer EXCEPT !.torn = FALSE]
    /\ UNCHANGED << call, history, phase, queueVars, senders, sent, crawlVars >>

\* write_all fails: the error is printed and the loop goes on.  Nothing of
\* the line, or only its first bytes, reached the file.
WriteFails ==
    /\ writer.pc = "recv"
    /\ chan # << >>
    /\ chan' = Tail(chan)
    /\ \E n \in { 0, 1 } :
          IF n = 0
          THEN /\ writer' = [writer EXCEPT !.failed = TRUE]
               /\ UNCHANGED << call, journalFile, origin, crawlVars >>
          ELSE /\ journalFile' = [journalFile EXCEPT
                      !.lines = write_all(@, writer.torn,
                                          SubSeq(EntryToString(Head(chan).entry), 1, n))]
               /\ origin' = write_origin(origin, writer.torn, Head(chan).from)
               /\ writer' = [writer EXCEPT !.failed = TRUE, !.torn = TRUE]
    /\ UNCHANGED << call, history, phase, queueVars, senders, sent, crawlVars >>

\* rx.recv() yields None: the channel is empty and every sender is dropped.
RecvClosed ==
    /\ writer.pc = "recv"
    /\ chan = << >>
    /\ \A p \in Producers : ~senders[p]
    /\ writer' = [writer EXCEPT !.pc = "flush"]
    /\ UNCHANGED << call, replayVars, queueVars, chan, senders, sent, origin, crawlVars >>

\* f.flush(), which may fail; the task ends.
Flush ==
    /\ writer.pc = "flush"
    /\ \E ok \in BOOLEAN : writer' = [writer EXCEPT !.pc = "done", !.failed = @ \/ ~ok]
    /\ UNCHANGED << call, replayVars, queueVars, chan, senders, sent, origin, crawlVars >>

NextJournal ==
    \/ \E p \in Producers, entry \in SendEntries : Send(p, entry)
    \/ \E p \in Producers : DropSender(p)
    \/ OpenOk
    \/ OpenFails
    \/ WriteOk
    \/ WriteFails
    \/ RecvClosed
    \/ Flush

SpecJournal == InitJournal /\ [][NextJournal]_vars

(***************************************************************************)
(* SpecCrawl: the control loop of main and the tasks it spawns.  A step    *)
(* runs from one await to the next.  A fetch, the reading of a body and    *)
(* save_html may each fail.                                                *)
(***************************************************************************)
InitCrawl ==
    /\ \E depth_limit \in DepthLimits : frontier = visit_queue_new(SeedPage, depth_limit)
    /\ qlock = 0
    /\ ticker = 0
    /\ permits = ConcurrencyLimit
    /\ coord = [pc |-> "next", item |-> None]
    /\ tasks = << >>
    /\ journalFile = NoFile
    /\ history = DefaultHistory
    /\ phase = "boot"
    /\ QueueIdle
    /\ WriterIdle
    /\ UrlIdle

\* A control loop that stops as soon as next() returns nothing.
after_next_stop_early(item, join_set) ==
    IF IsSome(item) THEN [pc |-> "acquire", item |-> item]
    ELSE [pc |-> "drain", item |-> None]

\* main, lines 74 and 141-147: where the control loop goes with what next()
\* returned: to spawn a task, out of the loop, or to wait for a task.
after_next(item, join_set) ==
    IF IsSome(item) THEN [pc |-> "acquire", item |-> item]
    ELSE IF join_set = {} THEN [pc |-> "drain", item |-> None]
    ELSE [pc |-> "join", item |-> None]

\* main, lines 69-72 and 141-147: lock the queue and take the next item; with
\* none, stop when join_set is empty and else go to wait for a task.
CoordNext ==
    /\ coord.pc = "next"
    /\ qlock = 0
    /\ frontier' = visit_next(frontier).q
    /\ coord' = after_next(visit_next(frontier).ret, JoinSet)
    /\ UNCHANGED << call, replayVars, queueVars, writerVars, qlock, ticker, permits, tasks >>

\* main, lines 75-89: a permit is acquired and the task is spawned with it.
CoordSpawn ==
    /\ coord.pc = "acquire"
    /\ can_acquire(permits)
    /\ permits' = permits - 1
    /\ tasks' = Append(tasks, Task("tick_lock", Unwrap(coord.item)[1], Unwrap(coord.item)[2], "none"))
    /\ coord' = [pc |-> "next", item |-> None]
    /\ UNCHANGED << call, replayVars, queueVars, writerVars, frontier, qlock, ticker >>

\* main, line 146: join_next() takes a finished task out of join_set.
CoordJoin ==
    /\ coord.pc = "join"
    /\ \E t \in JoinSet :
          /\ tasks[t].pc = "finished"
          /\ tasks' = [tasks EXCEPT ![t].pc = "joined"]
    /\ coord' = [pc |-> "next", item |-> None]
    /\ UNCHANGED << call, replayVars, queueVars, writerVars, frontier, qlock, ticker, permits >>

\* main, lines 150-161: join_next() takes the tasks still in join_set, one
\* finished task at a time, and with none left main returns.
CoordDrain ==
    /\ coord.pc = "drain"
    /\ IF JoinSet = {}
       THEN /\ coord' = [pc |-> "done", item |-> None]
            /\ tasks' = tasks
       ELSE /\ \E t \in JoinSet :
                  /\ tasks[t].pc = "finished"
                  /\ tasks' = [tasks EXCEPT ![t].pc = "joined"]
            /\ coord' = coord
    /\ UNCHANGED << call, replayVars, queueVars, writerVars, frontier, qlock, ticker, permits >>

\* task, line 93: the interval's lock is taken.
TickLock(t) ==
    /\ tasks[t].pc = "tick_lock"
    /\ ticker = 0
    /\ ticker' = t
    /\ tasks' = [tasks EXCEPT ![t].pc = "tick"]
    /\ UNCHANGED << call, replayVars, queueVars, writerVars, frontier, qlock, permits, coord >>

\* task, lines 94-95: the tick arrives and the interval's lock is released.
Tick(t) ==
    /\ tasks[t].pc = "tick"
    /\ ticker' = 0
    /\ tasks' = [tasks EXCEPT ![t].pc = "send"]
    /\ UNCHANGED << call, replayVars, queueVars, writerVars, frontier, qlock, permits, coord >>

\* task, lines 97-99: the request succeeds.
FetchOk(t) ==
    /\ tasks[t].pc = "send"
    /\ tasks' = [tasks EXCEPT ![t].pc = "text"]
    /\ UNCHANGED << call, replayVars, queueVars, writerVars, frontier, qlock, ticker, permits, coord >>

\* task, lines 127-140: the request fails; the task ends and drops its permit.
FetchFails(t) ==
    /\ tasks[t].pc = "send"
    /\ tasks' = [tasks EXCEPT ![t].pc = "finished", ![t].outcome = "transport"]
    /\ permits' = drop_permit(permits)
    /\ UNCHANGED << call, replayVars, queueVars, writerVars, frontier, qlock, ticker, coord >>

\* task, lines 100-101: the body is read and its links are extracted.
BodyOk(t) ==
    /\ tasks[t].pc = "text"
    /\ tasks' = [tasks EXCEPT ![t].pc = "lock"]
    /\ UNCHANGED << call, replayVars, queueVars, writerVars, frontier, qlock, ticker, permits, coord >>

\* task, lines 118-140: the body cannot be read; the task ends and drops its permit.
BodyFails(t) ==
    /\ tasks[t].pc = "text"
    /\ tasks' = [tasks EXCEPT ![t].pc = "finished", ![t].outcome = "body"]
    /\ permits' = drop_permit(permits)
    /\ UNCHANGED << call, replayVars, queueVars, writerVars, frontier, qlock, ticker, coord >>

\* task, lines 103-105: the queue is locked, the links are added and the URL is done.
LockAndAdd(t) ==
    /\ tasks[t].pc = "lock"
    /\ qlock = 0
    /\ qlock' = t
    /\ frontier' = done(add(frontier, Links(tasks[t].url), tasks[t].depth + 1), tasks[t].url)
    /\ tasks' = [tasks EXCEPT ![t].pc = "save"]
    /\ UNCHANGED << call, replayVars, queueVars, writerVars, ticker, permits, coord >>

\* task, lines 107-117: save_html ends, well or not, and the block that holds
\* the queue's lock is left.
Save(t) ==
    /\ tasks[t].pc = "save"
    /\ \E ok \in BOOLEAN :
          tasks' = [tasks EXCEPT ![t].pc = "report", ![t].outcome = IF ok THEN "ok" ELSE "save"]
    /\ qlock' = 0
    /\ UNCHANGED << call, replayVars, queueVars, writerVars, frontier, ticker, permits, coord >>

\* task, lines 130-140: the task ends and drops its permit.
TaskEnd(t) ==
    /\ tasks[t].pc = "report"
    /\ tasks' = [tasks EXCEPT ![t].pc = "finished"]
    /\ permits' = drop_permit(permits)
    /\ UNCHANGED << call, replayVars, queueVars, writerVars, frontier, qlock, ticker, coord >>

NextCrawl ==
    \/ CoordNext
    \/ CoordSpawn
    \/ CoordJoin
    \/ CoordDrain
    \/ \E t \in DOMAIN tasks : TickLock(t)
    \/ \E t \in DOMAIN tasks : Tick(t)
    \/ \E t \in DOMAIN tasks : FetchOk(t)
    \/ \E t \in DOMAIN tasks : FetchFails(t)
    \/ \E t \in DOMAIN tasks : BodyOk(t)
    \/ \E t \in DOMAIN tasks : BodyFails(t)
    \/ \E t \in DOMAIN tasks : LockAndAdd(t)
    \/ \E t \in DOMAIN tasks : Save(t)
    \/ \E t \in DOMAIN tasks : TaskEnd(t)

SpecCrawl == InitCrawl /\ [][NextCrawl]_vars

\* The runtime keeps running whatever can run: the control loop and the
\* tasks are polled when they are ready, and every fetch, read and write ends.
SpecCrawlFair == InitCrawl /\ [][NextCrawl]_vars /\ WF_vars(NextCrawl)

(***************************************************************************)
(* SpecUrl: Url::from_str and Url::new_with_base applied to a text.  The   *)
(* texts are a beginning (nothing, a scheme and host of the base or not,   *)
(* a scheme without host, another scheme) followed by up to MaxTail        *)
(* characters of "/", "a" and "#".                                         *)
(***************************************************************************)
T_ftp == << "f", "t", "p" >>
T_mailto == << "m", "a", "i", "l", "t", "o", ":" >>
Beginnings ==
    { << >>, SeedText, T_http \o T_sep \o << "h" >>, T_https \o T_sep \o << "g" >>,
      T_https \o T_sep, T_ftp \o T_sep \o << "h" >>, T_mailto }
UrlInputs == { b \o t : b \in Beginnings, t \in SeqsUpTo({ "/", "a", "#" }, MaxTail) }

InitUrl ==
    /\ call \in { [op |-> "none", input |-> text, result |-> None] : text \in UrlInputs }
    /\ journalFile = NoFile
    /\ history = DefaultHistory
    /\ phase = "boot"
    /\ QueueIdle
    /\ WriterIdle
    /\ CrawlIdle

\* Url::from_str(input)
FromStr ==
    /\ call.op = "none"
    /\ call' = [call EXCEPT !.op = "from_str", !.result = Some(UrlFromStr(call.input))]
    /\ UNCHANGED << replayVars, queueVars, writerVars, crawlVars >>

\* Url::new_with_base(&base, input)
NewWithBase ==
    /\ call.op = "none"
    /\ call' = [call EXCEPT !.op = "new_with_base",
                            !.result = Some(UrlNewWithBase(BaseUrl, call.input))]
    /\ UNCHANGED << replayVars, queueVars, writerVars, crawlVars >>

NextUrl == FromStr \/ NewWithBase

SpecUrl == InitUrl /\ [][NextUrl]_vars

(***************************************************************************)
(* Claims about the Queue and the replay.                                  *)
(***************************************************************************)
\* How many of the four sets hold url.
SetsHolding(q, url) ==
    Cardinality({ k \in { "pending", "processing", "processed", "failed" } :
                    CASE k = "pending" -> url \in q.pending_set
                      [] k = "processing" -> url \in q.processing
                      [] k = "processed" -> url \in q.processed
                      [] OTHER -> url \in q.failed })

\* C1: in every reachable state of a Queue built by new_with_initial, each URL
\* is a member of at most one of the sets pending, processing, processed, failed.
C1_AtMostOneSet == \A url \in UrlValues : SetsHolding(queue, url) <= 1

\* C2: next() never returns a URL that an earlier next() returned and that no
\* mark_as_processed or mark_as_failed call has settled since, for a queue
\* started empty and for a queue seeded from a recovered JournalHistory.
C2_NoDoubleDispatch == [][Next_ => \A url \in Range(ret') : url \notin outstanding]_vars

\* C3: a Queue built from the replay of a journal never returns from next() a
\* URL whose Processed record is in that journal, whatever calls follow.
C3_NoRefetchOfProcessed == [][Next_ => \A url \in Range(ret') : url \notin recorded]_vars

\* C4: add_pending(u) leaves the whole queue unchanged when u is in the pending
\* set, in processing or in processed; otherwise (also when u is in failed) it
\* appends u at the tail of the pending sequence, adds it to the pending set,
\* and changes no other set.
C4_AddPendingEffect ==
    [][\A url \in UrlValues : AddPending(url) =>
          IF url \in queue.pending_set \cup queue.processing \cup queue.processed
          THEN queue' = queue
          ELSE /\ queue'.pending = Append(queue.pending, url)
               /\ queue'.pending_set = queue.pending_set \cup { url }
               /\ queue'.processing = queue.processing
               /\ queue'.processed = queue.processed
               /\ queue'.failed = queue.failed]_vars

\* C4's case: a URL that is in failed was admitted again and waits at the tail
\* of the pending sequence, behind another URL (it is not the seed, which the
\* constructor admits).
C4_Witness ==
    /\ Len(queue.pending) >= 2
    /\ queue.pending[Len(queue.pending)] # BaseUrl
    /\ queue.pending[Len(queue.pending)] \in queue.failed
    /\ queue.pending[Len(queue.pending)] \in queue.pending_set

\* C5: mark_as_processed(u) and mark_as_failed(u) leave the pending sequence
\* and all four sets unchanged when u is not in processing.
C5_MarkIsNoOpOutsideProcessing ==
    [][\A url \in UrlValues :
          ((MarkAsProcessed(url) \/ MarkAsFailed(url)) /\ url \notin queue.processing)
              => queue' = queue]_vars

\* C6: the sum of the sizes of the pending, processing, processed and failed
\* sets never decreases from one state to the next.
C6_TotalNeverDecreases == [][SummaryTotal(queue') >= SummaryTotal(queue)]_vars

\* C7: next() returns the head of the pending sequence, which add_pending only
\* ever extends at the tail, and moves it from the pending sequence and the
\* pending set into processing; on an empty sequence it returns None and
\* leaves the queue unchanged.  No other operation reorders the sequence.
C7_NextIsFifo ==
    [][/\ Next_ =>
            IF queue.pending = << >>
            THEN ret' = None /\ queue' = queue
            ELSE /\ ret' = Some(Head(queue.pending))
                 /\ queue'.pending = Tail(queue.pending)
                 /\ queue'.pending_set = queue.pending_set \ { Head(queue.pending) }
                 /\ queue'.processing = queue.processing \cup { Head(queue.pending) }
                 /\ queue'.processed = queue.processed
                 /\ queue'.failed = queue.failed
       /\ ~Next_ =>
            /\ Len(queue'.pending) >= Len(queue.pending)
            /\ SubSeq(queue'.pending, 1, Len(queue.pending)) = queue.pending]_vars

\* C7's case: next() has returned a URL, which is now in processing, while a
\* different URL admitted after it is still waiting.
C7_Witness ==
    /\ IsSome(ret)
    /\ Unwrap(ret) \in queue.processing
    /\ queue.pending # << >>
    /\ Head(queue.pending) # Unwrap(ret)

\* Whether a sequence holds no element twice.
NoRepeats(s) == \A i, j \in 1..Len(s) : s[i] = s[j] => i = j

\* C8: for every journal content the JournalHistory of load_history has each
\* URL in at most one of its four lists, and at most once within a list.
C8_HistoryListsDisjoint ==
    phase = "loaded" /\ journalFile.exists =>
        /\ NoRepeats(history.pending)
        /\ \A url \in Range(history.pending) \cup history.processing
                          \cup history.processed \cup history.failed :
              Cardinality({ k \in 1..4 :
                    CASE k = 1 -> url \in Range(history.pending)
                      [] k = 2 -> url \in history.processing
                      [] k = 3 -> url \in history.processed
                      [] OTHER -> url \in history.failed }) = 1

(***************************************************************************)
(* Claims about the journal writer.                                        *)
(***************************************************************************)
IsPrefix(s, t) == Len(s) <= Len(t) /\ SubSeq(t, 1, Len(s)) = s

\* The lines of the file that a send of this run produced.
NewLines == { k \in DOMAIN origin : origin[k][1] # "old" }

\* The writer was drained and ended, and no write or flush failed.
Drained == writer.pc = "done" /\ ~writer.failed

\* Once drained: one line per entry sent, holding that entry's text, nothing
\* else added, and each producer's lines in the order of its sends.
DrainedFileIsComplete ==
    Drained =>
        /\ Len(journalFile.lines) = Len(origin)
        /\ \A p \in Producers : \A i \in 1..Len(sent[p]) :
              Cardinality({ k \in NewLines : origin[k] = << p, i >> }) = 1
        /\ \A k \in NewLines :
              /\ origin[k][1] \in Producers
              /\ origin[k][2] \in 1..Len(sent[origin[k][1]])
              /\ journalFile.lines[k] = EntryToString(sent[origin[k][1]][origin[k][2]])
        /\ \A k1, k2 \in NewLines :
              (k1 < k2 /\ origin[k1][1] = origin[k2][1]) => origin[k1][2] < origin[k2][2]

\* C9: with many producers and one writer task, once the writer is drained
\* and no write failed, the file holds exactly one line for every entry sent,
\* each producer's lines in the order it sent them, and as long as no write
\* failed the file at every earlier moment is a prefix of the file later.
C9_WriterKeepsOrder ==
    [][/\ DrainedFileIsComplete'
       /\ ~writer'.failed => IsPrefix(journalFile.lines, journalFile'.lines)]_vars

\* C9's case: the writer is drained without a failure, both producers sent
\* MaxSend entries, and a line of one producer lies between two of the other.
C9_Witness ==
    /\ Drained
    /\ \A p \in Producers : Len(sent[p]) = MaxSend
    /\ \E k1, k2, k3 \in NewLines :
          /\ k1 < k2 /\ k2 < k3
          /\ origin[k1][1] = origin[k3][1]
          /\ origin[k2][1] # origin[k1][1]

(***************************************************************************)
(* Claims about the scheduler.                                             *)
(***************************************************************************)
\* C10: at every moment the number of tasks that are spawned and not finished
\* is at most the concurrency limit, and every task that has finished, on
\* whichever exit path, has given its permit back: the permits left are the
\* limit minus the running tasks, so a finished task keeps no URL waiting.
C10_RunningWithinLimit ==
    /\ Cardinality(Running) <= ConcurrencyLimit
    /\ permits = ConcurrencyLimit - Cardinality(Running)

\* C10's case: as many tasks run as the limit allows, one of them spawned
\* after a task that ended on an error path.
C10_Witness ==
    /\ Cardinality(Running) = ConcurrencyLimit
    /\ \E t1, t2 \in DOMAIN tasks :
          /\ t1 < t2
          /\ tasks[t1].pc \in { "finished", "joined" }
          /\ tasks[t1].outcome \in { "transport", "body", "save" }
          /\ t2 \in Running

\* The control loop has left its loop.
Stopped == coord.pc \in { "drain", "done" }

\* C11: under fair scheduling the control loop eventually stops; it has
\* stopped only with nothing to visit and no task in join_set; and when next()
\* returns nothing while a task is in flight the loop goes to wait for a task
\* and, having joined one, calls next() again.
C11_LoopStopsWhenDrained ==
    /\ <>(coord.pc = "done")
    /\ [](Stopped => frontier.to_visit = << >> /\ JoinSet = {})
    /\ [][/\ CoordNext /\ visit_next(frontier).ret = None /\ Running # {}
             => coord'.pc = "join"]_vars
    /\ [][coord.pc = "join" /\ coord'.pc # "join" => coord'.pc = "next"]_vars

\* C11's case: the loop has stopped after it waited for tasks and joined them.
C11_Witness ==
    /\ coord.pc = "done"
    /\ Len(tasks) >= 2
    /\ \A t \in DOMAIN tasks : tasks[t].pc = "joined"

\* C12: every URL that next() returned ends in a terminal set: when the
\* control loop has stopped, nothing is left in visiting (the processing set)
\* and every URL that was dequeued is in visited, the one terminal set
\* main.rs keeps, whichever outcome its task had.
C12_DequeuedEndsTerminal ==
    Stopped =>
        /\ frontier.visiting = {}
        /\ \A t \in DOMAIN tasks : tasks[t].url \in frontier.visited

\* C13: a URL whose fetch failed, whose body could not be read or whose body
\* could not be saved is never recorded as processed (visited).
C13_FailureNeverProcessed ==
    \A t \in DOMAIN tasks :
        tasks[t].outcome \in { "transport", "body", "save" }
            => tasks[t].url \notin frontier.visited

\* Where an anchor on a page of the seed's site leads, when it stays on the
\* seed's scheme and host.
StaysOnSite(href) == ~href.abs \/ (href.scheme = SeedPage.scheme /\ href.domain = SeedPage.domain)
LinkedFrom(S) ==
    { Page(href.path) : href \in { h \in UNION { Range(Links(u)) : u \in S } : StaysOnSite(h) } }

\* The URLs on the seed's scheme and host that links lead to from the seed.
RECURSIVE ReachableIn(_, _)
ReachableIn(S, n) == IF n = 0 THEN S ELSE ReachableIn(S \cup LinkedFrom(S), n - 1)
MaxPages == 4
Reachable == ReachableIn({ SeedPage }, MaxPages)

\* No fetch, no read and no save of the crawl failed.
NothingFailed == \A t \in DOMAIN tasks : tasks[t].outcome = "ok"

\* Only URLs of the seed's scheme and host wait in to_visit.
OnlySeedSiteAdmitted ==
    \A i \in DOMAIN frontier.to_visit :
        /\ frontier.to_visit[i][1].domain = SeedPage.domain
        /\ frontier.to_visit[i][1].scheme = SeedPage.scheme

\* The crawl ended with every reachable URL visited and saved, nothing waiting.
CrawledAll ==
    /\ frontier.visited = Reachable
    /\ frontier.to_visit = << >>
    /\ frontier.visiting = {}
    /\ Saved = frontier.visited

PathIsCanonical(url) ==
    \/ ~IsSome(url.path)
    \/ /\ Unwrap(url.path) # << >>
       /\ "#" \notin Range(Unwrap(url.path))
       /\ Unwrap(url.path)[Len(Unwrap(url.path))] # "/"

\* The call has returned Ok.
Returned == IsSome(call.result)
ReturnedOk == Returned /\ IsOk(Unwrap(call.result))

\* C15: every Url that from_str or new_with_base returns has a path without
\* fragment and without trailing slash that is never the empty string.
C15_PathsAreCanonical == ReturnedOk => PathIsCanonical(Val(Unwrap(call.result)))

\* The shapes of a reference.
AbsoluteHttp(text) == StartsWith(text, T_http \o T_sep) \/ StartsWith(text, T_https \o T_sep)
SingleSlash(text) == StartsWith(text, << "/" >>) /\ ~StartsWith(text, << "/", "/" >>)
OffBase(text) ==
    /\ AbsoluteHttp(text)
    /\ IsOk(UrlFromStr(text))
    /\ Val(UrlFromStr(text)).scheme # BaseUrl.scheme \/ Val(UrlFromStr(text)).host # BaseUrl.host

\* C16: new_with_base succeeds only for an absolute http/https URL of the
\* base's scheme and host or for a reference that starts with a single "/",
\* and what it returns has the base's scheme and host; an absolute URL of
\* another scheme or host fails with DifferentSchemeOrHost; every other
\* shape fails with UnexpectedFormat.
C16_ResolveStaysOnBase ==
    call.op = "new_with_base" =>
        /\ ReturnedOk =>
              /\ AbsoluteHttp(call.input) \/ SingleSlash(call.input)
              /\ Val(Unwrap(call.result)).scheme = BaseUrl.scheme
              /\ Val(Unwrap(call.result)).host = BaseUrl.host
        /\ OffBase(call.input) => Unwrap(call.result) = Err("DifferentSchemeOrHost")
        /\ ~AbsoluteHttp(call.input) /\ ~SingleSlash(call.input)
              => Unwrap(call.result) = Err("UnexpectedFormat")

(***************************************************************************)
(* Claims about the replay, stated on the records of the log.              *)
(***************************************************************************)
\* The records of a log: what each line says, line by line.
Records(file) == [i \in DOMAIN file.lines |-> EntryFromStr(file.lines[i])]
HasRecord(recs, status, url) ==
    \E i \in DOMAIN recs : IsOk(recs[i]) /\ Val(recs[i]) = JournalEntry(status, url)
UrlsWith(recs, status) ==
    { Val(recs[i]).url : i \in { j \in DOMAIN recs : IsOk(recs[j]) /\ Val(recs[j]).status = status } }
Ended(recs, url) == HasRecord(recs, "Processed", url) \/ HasRecord(recs, "Failed", url)

\* The URLs of the Pending records among recs[1..n], in the order of the log.
RECURSIVE PendingRecords(_, _)
PendingRecords(recs, n) ==
    IF n = 0 THEN << >>
    ELSE IF IsOk(recs[n]) /\ Val(recs[n]).status = "Pending"
    THEN Append(PendingRecords(recs, n - 1), Val(recs[n]).url)
    ELSE PendingRecords(recs, n - 1)

\* The reference reconciliation of the records.
ReferenceOf(recs) ==
    [pending |-> SelectSeq(PendingRecords(recs, Len(recs)),
                           LAMBDA u : ~HasRecord(recs, "Processing", u) /\ ~Ended(recs, u)),
     processing |-> { u \in UrlsWith(recs, "Processing") : ~Ended(recs, u) },
     processed |-> UrlsWith(recs, "Processed"),
     failed |-> UrlsWith(recs, "Failed")]
Reference(file) == IF file.exists THEN ReferenceOf(Records(file)) ELSE DefaultHistory

\* C17: load_history returns the reference reconciliation of the log:
\* pending is the URLs of the Pending records, in the order of the log, that
\* have no Processing, Processed or Failed record; processing is the URLs with
\* a Processing record and no Processed or Failed record; processed and failed
\* are the URLs with a Processed, respectively Failed, record; a missing file
\* gives the empty history.
C17_LoadHistoryIsReference == phase = "loaded" => history = Reference(journalFile)

\* C17's case: a log that ends with an unterminated Processing record has
\* been replayed, and its URL is in processing and in no other list.
C17_Witness ==
    /\ phase = "loaded"
    /\ journalFile.exists
    /\ Len(journalFile.lines) = 2
    /\ \E u \in UrlValues :
          /\ Records(journalFile) = << Ok(JournalEntry("Pending", u)), Ok(JournalEntry("Processing", u)) >>
          /\ history = JournalHistory(<< >>, { u }, {}, {})

\* C18: a URL that the replay placed in processing and that is still there is
\* retried when a page links to it again: add_pending puts it into the
\* pending sequence (from where next() returns it).
C18_StrandedIsRetried ==
    [][\A url \in UrlValues :
          AddPending(url) /\ url \in history.processing /\ url \in queue.processing
              => url \in Range(queue'.pending)]_vars

\* C19: after new_with_initial(seed, history) the seed is in the pending
\* sequence, whatever the history records of it.
C19_SeedIsPending == phase = "running" => BaseUrl \in Range(queue.pending)

\* C20: no task holds the queue's lock while it waits for the fetch, the
\* reading of the body or the writing of the body file.
C20_NoLockAcrossIo ==
    \A t \in DOMAIN tasks : tasks[t].pc \in { "send", "text", "save" } => qlock # t

\* The text between "://" and the first "/" that follows it.
Authority(rest, slash) == IF slash = 0 THEN rest ELSE SubSeq(rest, 1, slash - 1)

\* A URL text of the shape scheme://host[/path][#fragment] with the scheme
\* http or https and a host that is not empty.
UrlTextOfSplit(sp) ==
    /\ IsSome(sp)
    /\ Unwrap(sp)[1] \in { T_http, T_https }
    /\ Authority(Unwrap(sp)[2], Find(Unwrap(sp)[2], << "/" >>)) # << >>
LineOfSplit(sp) ==
    /\ IsSome(sp)
    /\ Unwrap(sp)[1] \in { T_pending, T_processing, T_processed, T_failed }
    /\ UrlTextOfSplit(SplitOnce(Unwrap(sp)[2], T_sep))

\* A line of the form "<status>;<url>" with a known status and a URL that parses.
WellFormed(line) == LineOfSplit(SplitOnce(line, << ";" >>))

\* The log with its malformed lines removed.
WithoutMalformed(file) == [file EXCEPT !.lines = SelectSeq(@, WellFormed)]

\* C21: load_history skips malformed lines: of a log that holds malformed
\* lines it returns what it returns of the log with those lines removed, so
\* no malformed line gives a URL to any list.
C21_MalformedLinesSkipped ==
    phase = "loaded" => history = load_history(WithoutMalformed(journalFile))

(***************************************************************************)
(* Claims about the journal of a crawl.                                    *)
(***************************************************************************)
\* The sends made to the Journal: << producer, index >>.
Sends == UNION { { << p, i >> : i \in DOMAIN sent[p] } : p \in Producers }

\* The transitions the queue of the crawl has made: URLs handed out by
\* next(), URLs admitted by add() after the constructor's seed, and URLs done.
Dispatched == Len(tasks) + Len(coord.item)
Admitted == Len(frontier.to_visit) + Dispatched - 1
Completed ==
    Cardinality({ t \in DOMAIN tasks :
                    \/ tasks[t].pc \in { "save", "report" }
                    \/ tasks[t].outcome \in { "ok", "save" } })

\* C22: every transition the queue makes during a crawl is sent to the
\* Journal exactly once: there are as many sends as transitions (a Processing
\* entry per URL handed out, a Pending entry per link admitted, a Processed or
\* Failed entry per URL that ended).
C22_TransitionsJournaled == Cardinality(Sends) = Dispatched + Admitted + Completed

\* C23: in every state of a Queue built from a replayed history the pending
\* sequence holds no URL twice and its elements are exactly pending_set, so
\* the two pending counts of print_summary agree.
C23_PendingMatchesSet ==
    /\ NoRepeats(queue.pending)
    /\ Range(queue.pending) = queue.pending_set
    /\ Len(queue.pending) = Cardinality(queue.pending_set)

\* The pending sequence without the entry the constructor gave the seed,
\* which waits at its head until the first next().
SeedEntryWaits ==
    \A i \in DOMAIN journalFile.lines : ~StartsWith(journalFile.lines[i], T_processing)
JournaledPending == IF SeedEntryWaits THEN Tail(queue.pending) ELSE queue.pending

\* Whether a history holds what a queue holds.
Reconstructs(h, pending, q) ==
    /\ h.pending = pending
    /\ h.processing = q.processing
    /\ h.processed = q.processed
    /\ h.failed = q.failed

\* C24: at every point of a run whose transitions are all journaled and
\* flushed, load_history of the log yields the queue's pending sequence
\* (apart from the seed's initial entry) and its three sets.
C24_ReplayReconstructsQueue ==
    Reconstructs(load_history(journalFile), JournaledPending, queue)

====
